---- MODULE Spec2Model ----
(***************************************************************************)
(* PDFHighlighterApp (src/src/App.jsx): the page surface manager           *)
(* (onOpen, the re-render effect, renderAll), the stroke engine            *)
(* (attachBrushHandlers, strokeTo) and the export compositor (onSave).     *)
(*                                                                         *)
(* JavaScript runs the code between two awaits without interruption, so    *)
(* every action below is one such run: an event handler, a timer callback, *)
(* a React effect, or the resumption of an async function after an await.  *)
(*                                                                         *)
(* Units: zoom is held in tenths (10 = 1.0x), a render scale in            *)
(* thousandths (1250 = 1.25), opacity and alpha in hundredths, a line      *)
(* width and a pixel ratio as exact fractions, page sizes in hundredths of *)
(* a point,                                                                *)
(* the device pixel ratio in hundredths, a viewport (CSS) size in 800ths   *)
(* of a pixel, a canvas size in whole pixels.                              *)
(***************************************************************************)
EXTENDS Integers, FiniteSets, Sequences, TLC

\* ------------------------------------------------------------- bounds
MaxGen   == 4   \* renderAll calls in one behaviour
MaxOpens == 2   \* onOpen calls in one behaviour
MaxDowns == 2   \* pointer-downs in one behaviour
MaxSegs  == 3   \* segments drawn by pointer-move in one behaviour
MaxFails == 1   \* rejections of an awaited promise in one behaviour
MaxSaves == 1   \* onSave calls in one behaviour
MaxTools == 2   \* tool changes in one behaviour
MaxPages == 2   \* pages of the largest document
NCells   == 2   \* cells across an overlay (pointer positions)

\* ------------------------------------------------- program constants
DEFAULT_OPACITY   == 22
DEFAULT_THICKNESS == 18
OPACITY_CAP       == 25
MIN_LINE_WIDTH    == 2
baseScale         == 125
ZoomInit          == 10
ZoomMin           == 5
ZoomMax           == 40

\* ------------------------------------------------------------ inputs
\* The files a user can pick: "a" and "b" parse, "bad" does not.
Files == {"a", "b", "bad"}
Parses(f) == f # "bad"
\* doc.numPages / pdf.getPageCount() of a file
NumPages(f) == IF f = "a" THEN MaxPages ELSE IF f = "b" THEN 1 ELSE 0
\* page.getViewport({scale: 1}) of a file's pages, in hundredths of a point:
\* "a" has Letter pages (612 x 792), "b" A4 pages (595.28 x 841.89)
PageWidth(f)  == IF f = "a" THEN 61200 ELSE 59528
PageHeight(f) == IF f = "a" THEN 79200 ELSE 84189

Gens   == 1..MaxGen
Pages  == 0..(MaxPages - 1)
Cells  == 1..NCells
OpenIds == 1..MaxOpens
COLORS == {1, 2}

\* the values of the opacity slider (min 0.1, max 0.25, step 0.01) and of the
\* thickness slider (min 6, max 48, step 1)
OpacitySlider   == 10..25
ThicknessSlider == 6..48
\* a ref holding null or undefined
NoOpacity == -1
\* window.devicePixelRatio of the display the application runs on: at 100 %,
\* on a dense display, and in a browser at its smallest zoom (25 %)
PixelRatios == {25, 100, 200}

Max(a, b) == IF a >= b THEN a ELSE b
Min(a, b) == IF a <= b THEN a ELSE b
\* Math.ceil(n / d) for n >= 0, d > 0
Ceil(n, d) == (n + d - 1) \div d
\* the number n / d, kept exact
Frac(n, d) == [n |-> n, d |-> d]

\* ----------------------------------------------------------- surfaces
\* A pixel of an overlay: c = 0 is transparent, otherwise the colour last
\* painted there; d is the document the overlay it was painted on showed; a is
\* the pixel's alpha, in hundredths.
Clear == [c |-> 0, d |-> "", a |-> 0]
Blank == [x \in Cells |-> Clear]

\* An overlay canvas is named by the pass that created it and its page index.
NoOv == <<0, 0>>
OvIds == Gens \X Pages
\* overlaysRef.current = {}
EmptyRegistry == [p \in Pages |-> NoOv]

\* A canvas that document.createElement has not created yet.
NoCanvas ==
  [made |-> FALSE, width |-> 0, height |-> 0, cssWidth |-> 0, px |-> Blank,
   blend |-> "", cursor |-> "", drawing |-> FALSE, last |-> 0,
   lineWidth |-> Frac(0, 1), gco |-> "", strokeStyle |-> [c |-> 0, a |-> 0]]

NoPass == [pc |-> "none", doc |-> "", scale |-> 0, prev |-> EmptyRegistry, i |-> 0]
NoOpen == [pc |-> "none", file |-> "", zoom |-> 0]
NoImage == [src |-> NoOv, px |-> Blank, blend |-> "", width |-> 0, height |-> 0]
NoDrawn == [p \in Pages |-> NoImage]
IdleSave ==
  [pc |-> "idle", bytes |-> "", doc |-> "", count |-> 0, i |-> 0, ol |-> NoOv,
   ols |-> EmptyRegistry, tmp |-> NoImage, drawn |-> NoDrawn]

VARIABLES
  pdfBytes,      \* useState pdfBytes: "" (null) or the file the bytes came from
  pdfDoc,        \* useState pdfDoc: "" (null) or the file the handle was parsed from
  zoom,          \* useState zoom, in tenths
  color, opacity, thickness, eraser,             \* tool state
  colorRef, opacityRef, thickRef, eraserRef,     \* the live refs read by handlers
  renderTokenRef, \* renderTokenRef.current: 0 ("") or the latest token
  nTok,          \* tokens drawn so far (Math.random never repeats one)
  overlaysRef,   \* overlaysRef.current: page index -> overlay canvas
  canvas,        \* every overlay canvas created, with its closure state
  pass,          \* the async body of each renderAll call
  opens,         \* the onOpen calls
  nOpen,         \* onOpen calls so far
  effectDue,     \* the [pdfDoc, baseScale, zoom] effect is scheduled
  save,          \* the onSave call
  nSave, nDown, nSeg, nFail, nTool,   \* counters that bound the behaviour
  dpr,           \* window.devicePixelRatio
  painted,       \* history: what the user last saw on each page's overlay
  penAt          \* history: where the pointer last was in the stroke the user
                 \* is making on each overlay, 0 when the user is making none

toolVars == <<color, opacity, thickness, eraser, colorRef, opacityRef, thickRef,
              eraserRef, nTool>>
docVars  == <<pdfBytes, pdfDoc>>
rendVars == <<renderTokenRef, nTok, overlaysRef, pass>>
openVars == <<opens, nOpen, effectDue>>
saveVars == <<save, nSave>>
vars == <<pdfBytes, pdfDoc, zoom, color, opacity, thickness, eraser, colorRef,
          opacityRef, thickRef, eraserRef, renderTokenRef, nTok, overlaysRef,
          canvas, pass, opens, nOpen, effectDue, save, nSave, nDown, nSeg,
          nFail, nTool, dpr, painted, penAt>>

Init ==
  /\ pdfBytes = "" /\ pdfDoc = ""
  /\ zoom = ZoomInit
  /\ color = 1 /\ opacity = DEFAULT_OPACITY /\ thickness = DEFAULT_THICKNESS
  /\ eraser = FALSE
  /\ colorRef = 1 /\ opacityRef = DEFAULT_OPACITY /\ thickRef = DEFAULT_THICKNESS
  /\ eraserRef = FALSE
  /\ renderTokenRef = 0 /\ nTok = 0
  /\ overlaysRef = EmptyRegistry
  /\ canvas = [id \in OvIds |-> NoCanvas]
  /\ pass = [g \in Gens |-> NoPass]
  /\ opens = [k \in OpenIds |-> NoOpen] /\ nOpen = 0
  /\ effectDue = FALSE
  /\ save = IdleSave /\ nSave = 0
  /\ nDown = 0 /\ nSeg = 0 /\ nFail = 0 /\ nTool = 0
  /\ dpr = 100
  /\ painted = [p \in Pages |-> Blank]
  /\ penAt = [id \in OvIds |-> 0]

\* ------------------------------------------------------------ renderAll
\* The overlay shown over page p: the wrappers in the container are those of
\* the latest renderAll call (container.innerHTML = '' detaches the earlier
\* ones), and a pass appends its canvases to its own wrappers.
Displayed(p) ==
  IF renderTokenRef # 0 /\ canvas[<<renderTokenRef, p>>].made
  THEN <<renderTokenRef, p>> ELSE NoOv

\* viewport.width / viewport.height of page.getViewport({scale}), in 800ths
\* of a CSS pixel: a page side in hundredths of a point times the scale in
\* eighths (every scale renderAll is given is 1.25 times a zoom in tenths,
\* a whole number of eighths)
ViewportWidth(f, scaleVal)  == PageWidth(f) * (scaleVal \div 125)
ViewportHeight(f, scaleVal) == PageHeight(f) * (scaleVal \div 125)

\* olCtx.drawImage(prev, 0, 0, prev.width, prev.height, 0, 0, w, h): the
\* whole source is stretched over the whole target, so each cell (a fixed
\* fraction of the width) receives the source's content of that cell.
DrawImage(src) == [x \in Cells |-> src.px[x]]

\* prev && prev.width && prev.height
HasPrev(prev) == prev # NoOv /\ canvas[prev].width # 0 /\ canvas[prev].height # 0

\* window.devicePixelRatio || 1
DevicePixelRatio == IF dpr # 0 THEN dpr ELSE 100

\* An overlay canvas as the loop body sets it up for a page of file f at
\* scaleVal: sized to the viewport times the device pixel ratio, blended by
\* multiplication, holding px, with the cursor of the eraser flag.
Overlay(f, scaleVal, px, erasing) ==
  [NoCanvas EXCEPT
     !.made = TRUE,
     !.width = Ceil(ViewportWidth(f, scaleVal) * DevicePixelRatio, 80000),
     !.height = Ceil(ViewportHeight(f, scaleVal) * DevicePixelRatio, 80000),
     !.cssWidth = ViewportWidth(f, scaleVal),
     !.blend = "multiply",
     !.px = px,
     !.cursor = IF erasing THEN "not-allowed" ELSE "crosshair",
     !.lineWidth = Frac(1, 1), !.gco = "source-over",
     !.strokeStyle = [c |-> 0, a |-> 100]]

\* The content a pass gives the overlay of its current page: the previous
\* overlay of that page index, stretched to the new size.
Carried(g) ==
  LET prev == pass[g].prev[pass[g].i - 1]
  IN IF HasPrev(prev) THEN DrawImage(canvas[prev]) ELSE Blank

\* The overlay canvas a pass creates for its current page.
NewOverlay(g) == Overlay(pass[g].doc, pass[g].scale, Carried(g), eraserRef)

\* if (renderTokenRef.current !== token) return, at the top of an iteration
\* (without that comparison a superseded pass would render all its pages)
NeverOutdated(g) == FALSE
Outdated(g) == renderTokenRef # g

\* The state a pass is in when it reaches the top of iteration i.
LoopTop(g, i) ==
  IF i > NumPages(pass[g].doc) THEN "done"
  ELSE IF Outdated(g) THEN "cancelled"
  ELSE "getPage"

\* renderAll(doc, scaleVal), up to the first await of its async body
renderAll(doc, scaleVal) ==
  LET token == nTok + 1 IN
  /\ nTok < MaxGen
  /\ nTok' = token
  /\ renderTokenRef' = token
  /\ overlaysRef' = EmptyRegistry
  /\ pass' = [pass EXCEPT ![token] =
       [pc |-> IF NumPages(doc) >= 1 THEN "getPage" ELSE "done",
        doc |-> doc, scale |-> scaleVal, prev |-> overlaysRef, i |-> 1]]

\* await doc.getPage(i) resolves: the bitmap canvas is made and page.render starts
GetPageResolves(g) ==
  /\ pass[g].pc = "getPage"
  /\ pass' = [pass EXCEPT ![g].pc = "render"]
  /\ UNCHANGED <<docVars, zoom, toolVars, renderTokenRef, nTok, overlaysRef, canvas,
                 openVars, saveVars, nDown, nSeg, nFail, dpr, painted, penAt>>

\* await page.render(...).promise resolves: the overlay is made, filled from
\* the previous overlay, registered, and the loop goes to its next iteration
RenderResolves(g) ==
  /\ pass[g].pc = "render"
  /\ LET p == pass[g].i - 1 IN
     /\ canvas' = [canvas EXCEPT ![<<g, p>>] = NewOverlay(g)]
     /\ overlaysRef' = [overlaysRef EXCEPT ![p] = <<g, p>>]
     /\ pass' = [pass EXCEPT ![g].i = pass[g].i + 1,
                             ![g].pc = LoopTop(g, pass[g].i + 1)]
  /\ UNCHANGED <<docVars, zoom, toolVars, renderTokenRef, nTok, openVars, saveVars,
                 nDown, nSeg, nFail, dpr, painted, penAt>>

\* doc.getPage(i) or page.render rejects: the async body throws
PassRejects(g) ==
  /\ pass[g].pc \in {"getPage", "render"}
  /\ nFail < MaxFails
  /\ nFail' = nFail + 1
  /\ pass' = [pass EXCEPT ![g].pc = "failed"]
  /\ UNCHANGED <<docVars, zoom, toolVars, renderTokenRef, nTok, overlaysRef, canvas,
                 openVars, saveVars, nDown, nSeg, dpr, painted, penAt>>

\* --------------------------------------------------------------- onOpen
\* onOpen(e) up to await file.arrayBuffer()
OpenStart(f) ==
  /\ nOpen < MaxOpens
  /\ nOpen' = nOpen + 1
  /\ opens' = [opens EXCEPT ![nOpen + 1] = [pc |-> "read", file |-> f, zoom |-> zoom]]
  /\ UNCHANGED <<docVars, zoom, toolVars, rendVars, canvas, effectDue, saveVars,
                 nDown, nSeg, nFail, dpr, painted, penAt>>

\* the bytes arrive: setPdfBytes(libBytes), then await loading.promise
OpenBytes(k) ==
  /\ opens[k].pc = "read"
  /\ pdfBytes' = opens[k].file
  /\ opens' = [opens EXCEPT ![k].pc = "parse"]
  /\ UNCHANGED <<pdfDoc, zoom, toolVars, rendVars, canvas, nOpen, effectDue, saveVars,
                 nDown, nSeg, nFail, dpr, painted, penAt>>

\* the document parses: setPdfDoc(doc), setTimeout(() => renderAll(...), 0)
OpenParsed(k) ==
  /\ opens[k].pc = "parse"
  /\ Parses(opens[k].file)
  /\ pdfDoc' = opens[k].file
  /\ effectDue' = TRUE
  /\ opens' = [opens EXCEPT ![k].pc = "timer"]
  /\ painted' = [p \in Pages |-> Blank]
  /\ UNCHANGED <<pdfBytes, zoom, toolVars, rendVars, canvas, nOpen, saveVars,
                 nDown, nSeg, nFail, dpr, penAt>>

\* loading.promise rejects: onOpen throws
OpenFailed(k) ==
  /\ opens[k].pc = "parse"
  /\ ~Parses(opens[k].file)
  /\ opens' = [opens EXCEPT ![k].pc = "failed"]
  /\ UNCHANGED <<docVars, zoom, toolVars, rendVars, canvas, nOpen, effectDue, saveVars,
                 nDown, nSeg, nFail, dpr, painted, penAt>>

\* the timer of onOpen fires: renderAll(doc, baseScale * zoom), with the zoom
\* of the render whose onOpen closure handled the event
OpenTimer(k) ==
  /\ opens[k].pc = "timer"
  /\ renderAll(opens[k].file, baseScale * opens[k].zoom)
  /\ opens' = [opens EXCEPT ![k].pc = "done"]
  /\ UNCHANGED <<docVars, zoom, toolVars, canvas, nOpen, effectDue, saveVars,
                 nDown, nSeg, nFail, dpr, painted, penAt>>

\* useEffect(() => { if (pdfDoc) renderAll(pdfDoc, baseScale * zoom) }) after
\* the commit of setPdfDoc
RenderEffect ==
  /\ effectDue
  /\ effectDue' = FALSE
  /\ pdfDoc # ""
  /\ renderAll(pdfDoc, baseScale * zoom)
  /\ UNCHANGED <<docVars, zoom, toolVars, canvas, opens, nOpen, saveVars,
                 nDown, nSeg, nFail, dpr, painted, penAt>>

\* ----------------------------------------------------------------- zoom
\* setZoom(z => Math.min(4, +(z + 0.1).toFixed(2))) and its counterpart
ZoomIn(z)  == Min(ZoomMax, z + 1)
ZoomOut(z) == Max(ZoomMin, z - 1)

\* A click on + or -: the state changes and, the click being a discrete
\* event, the effect that depends on zoom runs before the handler returns.
\* A click that leaves zoom at its limit re-renders nothing. Clicks are taken
\* once the effect of an earlier setPdfDoc has run.
SetZoom(z) ==
  /\ ~effectDue
  /\ z # zoom
  /\ zoom' = z
  /\ IF pdfDoc # ""
     THEN renderAll(pdfDoc, baseScale * z)
     ELSE UNCHANGED rendVars
  /\ UNCHANGED <<docVars, toolVars, canvas, openVars, saveVars, nDown, nSeg, nFail, dpr,
                 painted, penAt>>

ZoomInClick  == SetZoom(ZoomIn(zoom))
ZoomOutClick == SetZoom(ZoomOut(zoom))

\* ------------------------------------------------------------ tool state
\* useEffect(() => { colorRef.current = color }, [color]) and its siblings:
\* the value a ref holds once the change of its state has been committed.
\* A tool change is a click or a slider input, a discrete event, so React
\* commits it and runs these effects before the next input event: a tool
\* action below is the state change together with its effect.
\* (without those effects a ref would keep the value it was created with)
RefNeverSynced(stateVal, oldRef) == oldRef
RefAfterCommit(stateVal, oldRef) == stateVal

\* updateOverlayCursors(): every registered overlay takes the cursor of the flag
\* (were the effect not to call it, the overlays would keep their cursor)
CursorsUntouched(flag) == canvas
updateOverlayCursors(flag) ==
  [id \in OvIds |->
     IF \E p \in Pages : overlaysRef[p] = id
     THEN [canvas[id] EXCEPT !.cursor = IF flag THEN "not-allowed" ELSE "crosshair"]
     ELSE canvas[id]]

\* the effect on [eraser]: eraserRef.current = eraser; updateOverlayCursors()
EraserEffect(v) ==
  /\ eraserRef' = RefAfterCommit(v, eraserRef)
  /\ canvas' = updateOverlayCursors(RefAfterCommit(v, eraserRef))

\* a colour swatch: setColor(c); setEraser(false)
SetColor(c) ==
  /\ c # color \/ eraser
  /\ nTool < MaxTools
  /\ nTool' = nTool + 1
  /\ color' = c
  /\ colorRef' = RefAfterCommit(c, colorRef)
  /\ eraser' = FALSE
  /\ IF eraser THEN EraserEffect(FALSE) ELSE UNCHANGED <<eraserRef, canvas>>
  /\ UNCHANGED <<docVars, zoom, opacity, thickness, opacityRef, thickRef, rendVars,
                 openVars, saveVars, nDown, nSeg, nFail, dpr, painted, penAt>>

\* the opacity slider: setOpacity(parseFloat(e.target.value))
SetOpacity(o) ==
  /\ o # opacity
  /\ nTool < MaxTools
  /\ nTool' = nTool + 1
  /\ opacity' = o
  /\ opacityRef' = RefAfterCommit(o, opacityRef)
  /\ UNCHANGED <<docVars, zoom, color, thickness, eraser, colorRef, thickRef,
                 eraserRef, rendVars, canvas, openVars, saveVars, nDown, nSeg, nFail, dpr, painted, penAt>>

\* the thickness slider: setThickness(parseInt(e.target.value))
SetThickness(t) ==
  /\ t # thickness
  /\ nTool < MaxTools
  /\ nTool' = nTool + 1
  /\ thickness' = t
  /\ thickRef' = RefAfterCommit(t, thickRef)
  /\ UNCHANGED <<docVars, zoom, color, opacity, eraser, colorRef, opacityRef,
                 eraserRef, rendVars, canvas, openVars, saveVars, nDown, nSeg, nFail, dpr, painted, penAt>>

\* the eraser button: setEraser(v => !v)
ToggleEraser ==
  /\ nTool < MaxTools
  /\ nTool' = nTool + 1
  /\ eraser' = ~eraser
  /\ EraserEffect(~eraser)
  /\ UNCHANGED <<docVars, zoom, color, opacity, thickness, colorRef, opacityRef,
                 thickRef, rendVars, openVars, saveVars, nDown, nSeg, nFail, dpr,
                 painted, penAt>>

\* ------------------------------------------------------ attachBrushHandlers
\* getLocal(evt).scaleX = canvas.width / r.width: the canvas's pixel width
\* over its displayed width (cssWidth is in 800ths of a CSS pixel)
ScaleX(cv) == Frac(cv.width * 800, cv.cssWidth)

\* pixelRatio = to.scaleX || (window.devicePixelRatio || 1)
PixelRatio(cv) ==
  IF ScaleX(cv).n # 0 THEN ScaleX(cv) ELSE Frac(DevicePixelRatio, 100)

\* ctx.lineWidth = Math.max(2, thickRef.current * pixelRatio), in canvas
\* pixels, over the denominator of the pixel ratio
\* (had the thickness been used as it is, a stroke would thin out on a dense
\* display)
LineWidthUnscaled(cv) ==
  Frac(Max(MIN_LINE_WIDTH * PixelRatio(cv).d, thickRef * PixelRatio(cv).d),
       PixelRatio(cv).d)
LineWidth(cv) ==
  Frac(Max(MIN_LINE_WIDTH * PixelRatio(cv).d, thickRef * PixelRatio(cv).n),
       PixelRatio(cv).d)

\* Math.min(opacityRef.current ?? DEFAULT_OPACITY, 0.25); the ref is absent
\* when it holds null or undefined, which no setter of the program stores
\* (had Math.max been written, the cap would be a floor)
AlphaFloored == Max(IF opacityRef = NoOpacity THEN DEFAULT_OPACITY ELSE opacityRef,
                    OPACITY_CAP)
Alpha == Min(IF opacityRef = NoOpacity THEN DEFAULT_OPACITY ELSE opacityRef,
             OPACITY_CAP)

\* the cells a round-capped segment between two pointer positions covers
Covered(from, to) == Min(from, to)..Max(from, to)

\* ctx.strokeStyle of an erasing segment: 'rgba(0,0,0,1)'
\* (had the eraser taken the brush's alpha, it would only thin the ink)
EraserStyleTranslucent == [c |-> 0, a |-> Alpha]
EraserStyle == [c |-> 0, a |-> 100]

\* ctx.stroke() on a pixel the segment covers, under the context's
\* globalCompositeOperation and strokeStyle: source-over lays the colour over
\* what is there, destination-out keeps of what is there the part the source
\* is not opaque over
StrokePixel(cell, gco, style, f) ==
  IF gco = "destination-out"
  THEN LET kept == (cell.a * (100 - style.a)) \div 100
       IN IF kept = 0 THEN Clear ELSE [cell EXCEPT !.a = kept]
  ELSE [c |-> style.c, d |-> f,
        a |-> cell.a + (style.a * (100 - cell.a)) \div 100]

\* strokeTo(from, to) on the canvas cv whose pass shows document f
strokeTo(cv, f, from, to) ==
  LET isErasing == eraserRef
      gco == IF isErasing THEN "destination-out" ELSE "source-over"
      style == IF isErasing THEN EraserStyle ELSE [c |-> colorRef, a |-> Alpha]
  IN [cv EXCEPT
        !.lineWidth = LineWidth(cv),
        !.gco = gco,
        !.strokeStyle = style,
        !.px = [x \in Cells |->
                  IF x \in Covered(from, to)
                  THEN StrokePixel(cv.px[x], gco, style, f)
                  ELSE cv.px[x]]]

pointerFrame == <<docVars, zoom, toolVars, rendVars, openVars, saveVars, nFail, dpr>>

\* last = getLocal(e) in onpointerdown: the down point, whatever the closure held
\* (had the handler kept the point of a stroke still marked active, the next
\* segment would start there)
DownPointKeepsStroke(cv, x) == IF cv.drawing THEN cv.last ELSE x
DownPoint(cv, x) == x

\* canvas.onpointerdown on the overlay shown over page p
PointerDown(p, x) ==
  /\ Displayed(p) # NoOv
  /\ nDown < MaxDowns
  /\ nDown' = nDown + 1
  /\ canvas' = [canvas EXCEPT ![Displayed(p)].drawing = TRUE,
                              ![Displayed(p)].last = DownPoint(canvas[Displayed(p)], x)]
  /\ penAt' = [penAt EXCEPT ![Displayed(p)] = x]
  /\ UNCHANGED <<pointerFrame, nSeg, painted>>

\* if (!drawing || !last) return
\* (without that test a move with no stroke begun would draw from nowhere)
IdleNever(cv) == FALSE
Idle(cv) == ~cv.drawing \/ cv.last = 0

\* canvas.onpointermove on the overlay shown over page p
PointerMove(p, x) ==
  /\ Displayed(p) # NoOv
  /\ LET id == Displayed(p)
         cv == canvas[id]
     IN IF Idle(cv)
        THEN UNCHANGED <<canvas, nSeg, painted, penAt>>
        ELSE /\ nSeg < MaxSegs
             /\ nSeg' = nSeg + 1
             /\ canvas' = [canvas EXCEPT
                  ![id] = [strokeTo(cv, pass[id[1]].doc, cv.last, x) EXCEPT !.last = x]]
             /\ painted' = [painted EXCEPT
                  ![p] = strokeTo(cv, pass[id[1]].doc, cv.last, x).px]
             /\ penAt' = [penAt EXCEPT ![id] = x]
  /\ UNCHANGED <<pointerFrame, nDown>>

\* drawing = false; last = null: `let drawing`, `let last` are declared inside
\* attachBrushHandlers(canvas), so each overlay's handlers close over a pair of
\* their own
\* (had the pair been declared once for the component, ending a stroke on one
\* page would end the strokes on all)
StoppedEverywhere(id) ==
  [o \in OvIds |-> [canvas[o] EXCEPT !.drawing = FALSE, !.last = 0]]
Stopped(id) ==
  [o \in OvIds |->
     IF o = id THEN [canvas[o] EXCEPT !.drawing = FALSE, !.last = 0]
     ELSE canvas[o]]

\* stop(), the handler of pointer-up and pointer-leave
stop(p) ==
  /\ Displayed(p) # NoOv
  /\ canvas' = Stopped(Displayed(p))
  /\ penAt' = [penAt EXCEPT ![Displayed(p)] = 0]
  /\ UNCHANGED <<pointerFrame, nDown, nSeg, painted>>

PointerUp(p)    == stop(p)
PointerLeave(p) == stop(p)

\* --------------------------------------------------------------- onSave
saveFrame == <<docVars, zoom, toolVars, rendVars, openVars, nDown, nSeg,
               dpr, painted, penAt>>

\* if (!ol) continue
SkipPage(ol) == ol = NoOv

\* The state onSave is in at the top of iteration i of its page loop.
SaveLoopTop(sv, i) ==
  [sv EXCEPT !.i = i, !.ol = NoOv, !.tmp = NoImage,
             !.pc = IF i < sv.count THEN "getPage" ELSE "save"]

\* tctx.globalCompositeOperation = "multiply"; tctx.drawImage(ol, 0, 0,
\* tmp.width, tmp.height): the overlay, as it is now, is stretched over the
\* page bitmap and blended onto it
Composite(ol) ==
  [save.tmp EXCEPT !.src = ol, !.px = DrawImage(canvas[ol]), !.blend = "multiply"]

\* The canvases after that composite: drawImage reads the overlay and writes
\* the temporary canvas only.
\* (had the blend rule been set on the overlay's own context instead, the
\* export would alter the overlay)
AfterCompositeOnOverlay(ol) == [canvas EXCEPT ![ol].gco = "multiply"]
AfterComposite(ol) == canvas

\* Math.max(1, Math.ceil(baseViewport.width)), in points
CeilBaseWidth(f) == Max(1, Ceil(PageWidth(f), 100))

\* scale = ol.width / Math.max(1, Math.ceil(baseViewport.width)) is at least
\* the 0.1 that Math.max(0.1, scale) puts under it
ScaleAboveFloor(f, ol) == canvas[ol].width * 10 >= CeilBaseWidth(f)

\* floor(log2(n / d)) for n, d > 0: the binary exponent of the quotient
RECURSIVE FloorLog2(_, _)
FloorLog2(n, d) ==
  IF n >= 2 * d THEN FloorLog2(n, 2 * d) + 1
  ELSE IF n < d THEN FloorLog2(2 * n, d) - 1
  ELSE 0

RECURSIVE Pow2(_)
Pow2(n) == IF n <= 0 THEN 1 ELSE 2 * Pow2(n - 1)

\* (r * 2^k) mod c
RECURSIVE Doubled(_, _, _)
Doubled(r, k, c) == IF k <= 0 THEN r % c ELSE Doubled((2 * r) % c, k - 1, c)

\* scale = ol.width / ... is a division of doubles: the quotient w / c is
\* rounded to the nearest number m / 2^k with a significand m of 53 bits
\* (ties to the even m). This is the rounding error times c * 2^k, the whole
\* number c * m - w * 2^k: its size is the remainder of w * 2^k by c, or what
\* that remainder lacks to c.
QuotientError(w, c) ==
  LET k == 52 - FloorLog2(w, c)
      r == Doubled(w, k, c)
      odd == 2 * Doubled(w, k - 1, c) >= c
  IN IF 2 * r < c THEN 0 - r
     ELSE IF 2 * r > c THEN c - r
     ELSE IF odd THEN c - r ELSE 0 - r

\* Math.ceil(side * Math.max(0.1, scale)), the side of
\* jsPage.getViewport({scale: Math.max(0.1, scale)}) rounded up, for a page
\* side given in hundredths of a point, computed as the doubles compute it.
\* Where side * w / c is no whole number it lies further from one than the
\* rounding errors reach, and the result is its ceiling. Where it is a whole
\* number N the product of the side and the rounded quotient is
\* N + side * e / (c * 2^k), e being the error above: with e > 0 and that
\* excess more than half the distance from N to the next double the product
\* rounds to a number above N and Math.ceil gives N + 1; otherwise it rounds
\* to N or below and Math.ceil gives N.
ExportSide(f, ol, side) ==
  LET w == canvas[ol].width
      c == CeilBaseWidth(f)
  IN IF ~ScaleAboveFloor(f, ol) THEN Ceil(side, 1000)
     ELSE IF (side * w) % (100 * c) # 0 THEN Ceil(side * w, 100 * c)
     ELSE LET N  == (side * w) \div (100 * c)
              Lq == FloorLog2(w, c)
              e  == QuotientError(w, c)
          IN IF /\ e > 0
                /\ 2 * side * e * Pow2(Lq) > 100 * c * Pow2(FloorLog2(N, 1)) * Pow2(0 - Lq)
             THEN N + 1
             ELSE N

\* the temporary canvas onSave makes for a page of document f under overlay ol
TmpCanvas(f, ol) ==
  [NoImage EXCEPT !.width = ExportSide(f, ol, PageWidth(f)),
                  !.height = ExportSide(f, ol, PageHeight(f))]

\* onSave() up to await PDFDocument.load(pdfBytes)
SaveStart ==
  /\ save.pc \in {"idle", "saved", "failed"}
  /\ pdfBytes # "" /\ pdfDoc # ""
  /\ nSave < MaxSaves
  /\ nSave' = nSave + 1
  /\ save' = [IdleSave EXCEPT !.pc = "load", !.bytes = pdfBytes, !.doc = pdfDoc]
  /\ UNCHANGED <<saveFrame, canvas, nFail>>

\* the writer has loaded the bytes: the loop starts
SaveLoaded ==
  /\ save.pc = "load"
  /\ Parses(save.bytes)
  /\ save' = SaveLoopTop([save EXCEPT !.count = NumPages(save.bytes)], 0)
  /\ UNCHANGED <<saveFrame, canvas, nSave, nFail>>

\* await pdfDoc.getPage(i + 1) resolves: the registry is read for page i
SaveGetPage ==
  /\ save.pc = "getPage"
  /\ save.i + 1 <= NumPages(save.doc)
  /\ LET ol == overlaysRef[save.i] IN
     save' = IF SkipPage(ol)
             THEN SaveLoopTop([save EXCEPT !.ols[save.i] = ol], save.i + 1)
             ELSE [save EXCEPT !.pc = "render", !.ol = ol, !.ols[save.i] = ol,
                               !.tmp = TmpCanvas(save.doc, ol)]
  /\ UNCHANGED <<saveFrame, canvas, nSave, nFail>>

\* await jsPage.render(...).promise resolves: composite, then embedPng
SaveRendered ==
  /\ save.pc = "render"
  /\ save' = [save EXCEPT !.pc = "embed", !.tmp = Composite(save.ol)]
  /\ canvas' = AfterComposite(save.ol)
  /\ UNCHANGED <<saveFrame, nSave, nFail>>

\* await pdf.embedPng(dataUrl) resolves: page.drawImage, next iteration
SaveEmbedded ==
  /\ save.pc = "embed"
  /\ save' = SaveLoopTop([save EXCEPT !.drawn[save.i] = save.tmp], save.i + 1)
  /\ UNCHANGED <<saveFrame, canvas, nSave, nFail>>

\* await pdf.save() resolves: the file is downloaded
SaveSaved ==
  /\ save.pc = "save"
  /\ save' = [save EXCEPT !.pc = "saved"]
  /\ UNCHANGED <<saveFrame, canvas, nSave, nFail>>

\* an awaited step of onSave rejects: load (always, for bytes that are no
\* document), getPage (always, for a page the handle does not have), render,
\* embedPng or save
SaveRejects ==
  /\ save.pc \in {"load", "getPage", "render", "embed", "save"}
  /\ \/ /\ save.pc = "load" /\ ~Parses(save.bytes)
        /\ UNCHANGED nFail
     \/ /\ save.pc = "getPage" /\ save.i + 1 > NumPages(save.doc)
        /\ UNCHANGED nFail
     \/ /\ nFail < MaxFails
        /\ nFail' = nFail + 1
  /\ save' = [save EXCEPT !.pc = "failed"]
  /\ UNCHANGED <<saveFrame, canvas, nSave>>

\* ---------------------------------------------------------- specifications
PassResumes == \E g \in Gens : GetPageResolves(g) \/ RenderResolves(g)

PassFails == \E g \in Gens : PassRejects(g)

OpenStep ==
  \/ \E f \in Files : OpenStart(f)
  \/ \E k \in OpenIds : OpenBytes(k) \/ OpenParsed(k) \/ OpenFailed(k) \/ OpenTimer(k)
  \/ RenderEffect

ZoomStep == ZoomInClick \/ ZoomOutClick

PointerStep ==
  \E p \in Pages :
    \/ \E x \in Cells : PointerDown(p, x) \/ PointerMove(p, x)
    \/ PointerUp(p)
    \/ PointerLeave(p)

SaveResumes ==
  \/ SaveStart \/ SaveLoaded \/ SaveGetPage \/ SaveRendered
  \/ SaveEmbedded \/ SaveSaved

SaveStep == SaveResumes \/ SaveRejects

\* pointer-down and pointer-move on any page
PointerDraws ==
  \E p \in Pages, x \in Cells : PointerDown(p, x) \/ PointerMove(p, x)

ToolStep ==
  \/ \E c \in COLORS : SetColor(c)
  \/ \E o \in {DEFAULT_OPACITY, OPACITY_CAP} : SetOpacity(o)
  \/ \E t \in {DEFAULT_THICKNESS, 48} : SetThickness(t)
  \/ ToggleEraser

\* the controls that change the eraser flag: the eraser button and, turning
\* it off, the colour swatches
EraserStep == ToggleEraser \/ \E c \in COLORS : SetColor(c)

\* pointer-down and pointer-move on the overlay of the first page
FirstPageDraws == \E x \in Cells : PointerDown(0, x) \/ PointerMove(0, x)

\* The application from its start: opens, the render passes they trigger,
\* and strokes.
Next == OpenStep \/ PassResumes \/ PointerStep

Spec == Init /\ [][Next]_vars

\* A state the application reaches from its start: on a display of pixel
\* ratio d the user has clicked the zoom buttons up to z and moved the
\* thickness slider to t and the opacity slider to o; file "a" has then been
\* opened, the first of the two passes an open starts (the effect's and the
\* timer's, token 1) was superseded by the second (token 2) and stopped after
\* its first page, the second has run to its end, and nothing is drawn yet.
Settled(z, d, t, o) ==
  /\ pdfBytes = "a" /\ pdfDoc = "a"
  /\ zoom = z
  /\ color = 1 /\ opacity = o /\ thickness = t
  /\ eraser = FALSE
  /\ colorRef = 1 /\ opacityRef = o /\ thickRef = t
  /\ eraserRef = FALSE
  /\ renderTokenRef = 2 /\ nTok = 2
  /\ dpr = d
  /\ overlaysRef = [p \in Pages |-> IF p < NumPages("a") THEN <<2, p>> ELSE NoOv]
  /\ canvas = [id \in OvIds |->
       IF (id[1] = 2 /\ id[2] < NumPages("a")) \/ id = <<1, 0>>
       THEN Overlay("a", baseScale * z, Blank, FALSE)
       ELSE NoCanvas]
  /\ pass = [g \in Gens |->
       IF g = 1 THEN [pc |-> "cancelled", doc |-> "a", scale |-> baseScale * z,
                      prev |-> EmptyRegistry, i |-> 2]
       ELSE IF g = 2 THEN [pc |-> "done", doc |-> "a", scale |-> baseScale * z,
                           prev |-> EmptyRegistry, i |-> NumPages("a") + 1]
       ELSE NoPass]
  /\ opens = [k \in OpenIds |->
       IF k = 1 THEN [pc |-> "done", file |-> "a", zoom |-> z] ELSE NoOpen]
  /\ nOpen = 1
  /\ effectDue = FALSE
  /\ save = IdleSave /\ nSave = 0
  /\ nDown = 0 /\ nSeg = 0 /\ nFail = 0
  /\ nTool = (IF t = DEFAULT_THICKNESS THEN 0 ELSE 1)
             + (IF o = DEFAULT_OPACITY THEN 0 ELSE 1)
  /\ painted = [p \in Pages |-> Blank]
  /\ penAt = [id \in OvIds |-> 0]

\* The settled state with nothing changed before the open.
InitSettled == Settled(ZoomInit, 100, DEFAULT_THICKNESS, DEFAULT_OPACITY)

\* A further file is opened over the settled document.
NextOpen == OpenStep \/ PassResumes \/ PointerStep

SpecOpen == InitSettled /\ [][NextOpen]_vars

\* The settled document is zoomed and drawn on.
NextZoom == ZoomStep \/ PassResumes \/ PointerStep

SpecZoom == InitSettled /\ [][NextZoom]_vars

\* The settled document is zoomed while page rendering may fail.
NextFail == ZoomStep \/ PassResumes \/ PassFails

SpecFail == InitSettled /\ [][NextFail]_vars

\* The settled document is zoomed in and exported, no step failing.
NextSave == ZoomInClick \/ PassResumes \/ SaveResumes

SpecSave == InitSettled /\ [][NextSave]_vars

\* The first page of the settled document is drawn on and the document is
\* exported.
NextExport == FirstPageDraws \/ SaveStep

SpecExport == InitSettled /\ [][NextExport]_vars

\* pointer events on the overlay of the first page
FirstPageStroke ==
  \/ \E x \in Cells : PointerDown(0, x) \/ PointerMove(0, x)
  \/ PointerUp(0)
  \/ PointerLeave(0)

\* The first page of the settled document is drawn on while the tools are
\* changed.
NextTool == FirstPageDraws \/ ToolStep

SpecTool == InitSettled /\ [][NextTool]_vars

\* The first page is drawn on at every opacity of the slider.
InitOpacity ==
  \E o \in OpacitySlider : Settled(ZoomInit, 100, DEFAULT_THICKNESS, o)

NextOpacity == FirstPageDraws

SpecOpacity == InitOpacity /\ [][NextOpacity]_vars

\* Strokes are begun, drawn and ended on the first page while the eraser is
\* switched on and off.
NextStroke == FirstPageStroke \/ ToggleEraser

SpecStroke == InitSettled /\ [][NextStroke]_vars

\* The first page is drawn on and erased, in either colour and at the ends of
\* the opacity slider.
NextErase ==
  \/ FirstPageDraws \/ EraserStep
  \/ \E o \in {10, OPACITY_CAP} : SetOpacity(o)

SpecErase == InitSettled /\ [][NextErase]_vars

\* Strokes are made on the settled document and none is ended: a further
\* pointer-down on an overlay arrives while its stroke is still active.
NextStrokes == PointerDraws

SpecStrokes == InitSettled /\ [][NextStrokes]_vars

\* A state Spec reaches in one step: the application has started and the
\* user has picked file "a", whose bytes are being read.
InitReading ==
  /\ pdfBytes = "" /\ pdfDoc = ""
  /\ zoom = ZoomInit
  /\ color = 1 /\ opacity = DEFAULT_OPACITY /\ thickness = DEFAULT_THICKNESS
  /\ eraser = FALSE
  /\ colorRef = 1 /\ opacityRef = DEFAULT_OPACITY /\ thickRef = DEFAULT_THICKNESS
  /\ eraserRef = FALSE
  /\ renderTokenRef = 0 /\ nTok = 0
  /\ overlaysRef = EmptyRegistry
  /\ canvas = [id \in OvIds |-> NoCanvas]
  /\ pass = [g \in Gens |-> NoPass]
  /\ opens = [k \in OpenIds |->
       IF k = 1 THEN [pc |-> "read", file |-> "a", zoom |-> ZoomInit] ELSE NoOpen]
  /\ nOpen = 1
  /\ effectDue = FALSE
  /\ save = IdleSave /\ nSave = 0
  /\ nDown = 0 /\ nSeg = 0 /\ nFail = 0 /\ nTool = 0
  /\ dpr = 100
  /\ painted = [p \in Pages |-> Blank]
  /\ penAt = [id \in OvIds |-> 0]

\* the steps of an onOpen call after its first await, and the effect it causes
OpenResumes ==
  \/ \E k \in OpenIds : OpenBytes(k) \/ OpenParsed(k) \/ OpenTimer(k)
  \/ RenderEffect

\* The first file is loaded while the view is zoomed out, also during the
\* read and the parse.
NextLoad == OpenResumes \/ ZoomOutClick \/ PassResumes

SpecLoad == InitReading /\ [][NextLoad]_vars

\* The settled document is zoomed in while the eraser is switched on and off.
NextCursor == ZoomInClick \/ PassResumes \/ EraserStep

SpecCursor == InitSettled /\ [][NextCursor]_vars

\* the zooms file "a" is opened at below: the smallest, one that gives page
\* sides that are no whole number of pixels, the largest
WidthZooms == {ZoomMin, ZoomInit + 1, ZoomMax}

\* The first page is drawn on at every thickness of the slider, at several
\* zooms and pixel ratios.
InitWidth ==
  \E z \in WidthZooms, d \in PixelRatios, t \in ThicknessSlider :
    Settled(z, d, t, DEFAULT_OPACITY)

NextWidth == FirstPageDraws

SpecWidth == InitWidth /\ [][NextWidth]_vars

\* The application from its start: files are opened one after or over
\* another and their passes run, nothing is drawn.
NextRender == OpenStep \/ PassResumes

SpecRender == Init /\ [][NextRender]_vars

\* onSave is suspended at one of its awaits.
SaveSuspended == save.pc \in {"load", "getPage", "render", "embed", "save"}

\* a click on + that arrives while onSave is suspended
ZoomWhileSaving == SaveSuspended /\ ZoomInClick

\* The settled document is exported, no step failing, and zoomed in only
\* while the export is suspended.
NextSaveRace == SaveResumes \/ ZoomWhileSaving \/ PassResumes

SpecSaveRace == InitSettled /\ [][NextSaveRace]_vars

\* pointer events on the overlays of the first two pages
TwoPagesStroke ==
  \E p \in {0, 1} :
    \/ \E x \in Cells : PointerDown(p, x) \/ PointerMove(p, x)
    \/ PointerUp(p)
    \/ PointerLeave(p)

\* Strokes are begun, drawn and ended on two pages of the settled document,
\* one stroke running on each at the same time.
NextPointer == TwoPagesStroke

SpecPointer == InitSettled /\ [][NextPointer]_vars

\* The document is exported, no step failing, after it was opened at any zoom
\* of the buttons and on any of the displays.
InitSizes ==
  \E z \in ZoomMin..ZoomMax, d \in PixelRatios :
    Settled(z, d, DEFAULT_THICKNESS, DEFAULT_OPACITY)

NextSizes == SaveResumes

SpecSizes == InitSizes /\ [][NextSizes]_vars

\* ------------------------------------------------------------------ claims
\* No render pass is suspended at getPage or page.render.
RenderSettled == \A g \in Gens : pass[g].pc \notin {"getPage", "render"}

PagesOf(f) == {p \in Pages : p < NumPages(f)}

\* C1: once rendering has settled after zoom changes, every page of the open
\* document has a registered overlay, and where that overlay is the one shown
\* over the page (the one strokes go to) it holds what the user had painted
\* on that page: no painted content is lost by a re-render.
C1_StrokesSurviveZoom ==
  RenderSettled =>
    \A p \in PagesOf(pdfDoc) :
      /\ overlaysRef[p] # NoOv
      /\ overlaysRef[p] = Displayed(p) => canvas[overlaysRef[p]].px = painted[p]

\* C2: once all render passes have finished, every overlay in the registry
\* was created by the latest renderAll call; no page index holds a surface
\* of an earlier pass.
C2_OnlyLatestGenerationRegistered ==
  RenderSettled =>
    \A p \in Pages : overlaysRef[p] # NoOv => overlaysRef[p][1] = renderTokenRef

\* C3: a pass that has been superseded (its token is no longer the render
\* token) writes nothing to the overlay registry and creates no surface when
\* it resumes from getPage or page.render.
C3_SupersededPassIsNoOp ==
  [][\A g \in Gens :
       (g # renderTokenRef /\ pass[g].pc \in {"getPage", "render"}
          /\ pass'[g] # pass[g])
       => (overlaysRef' = overlaysRef /\ canvas' = canvas)]_vars

\* C4: no overlay of a document carries pixel content painted on an overlay
\* of another document: the overlays of a newly opened file start empty.
C4_NewDocumentStartsEmpty ==
  \A id \in OvIds :
    canvas[id].made =>
      \A x \in Cells :
        canvas[id].px[x].c # 0 => canvas[id].px[x].d = pass[id[1]].doc

\* C5: no step of an onOpen call whose file fails to parse changes pdfBytes,
\* pdfDoc, the render token or the overlay registry.
C5_FailedOpenLeavesDocument ==
  [][\A k \in OpenIds :
       (opens'[k] # opens[k] /\ opens'[k].file # "" /\ ~Parses(opens'[k].file))
       => UNCHANGED <<pdfBytes, pdfDoc, renderTokenRef, overlaysRef>>]_vars

\* C6: the overlay onSave reads from the registry for a page is the overlay
\* shown over that page in the preview (none if none is shown), and it is
\* composited with the blend rule the preview gives it.
C6_ExportsTheDisplayedOverlay ==
  /\ [][(save.pc = "getPage" /\ save' # save /\ save'.pc # "failed")
        => overlaysRef[save.i] = Displayed(save.i)]_vars
  /\ [][(save.pc = "render" /\ save'.pc = "embed")
        => save'.tmp.blend = canvas[save.ol].blend]_vars

\* C7: a finished onSave has drawn a flattened image onto every page of the
\* document, whatever the state of page rendering was when it was invoked.
C7_EveryPageDrawn ==
  save.pc = "saved" => \A p \in PagesOf(save.bytes) : save.drawn[p] # NoImage

\* C8: a current pass that has ended, with or without a failed page, has
\* registered an overlay for every page after the failed one.
C8_FailedPageDoesNotAbort ==
  \A g \in Gens :
    (g = renderTokenRef /\ pass[g].pc \in {"done", "failed"}) =>
      \A p \in PagesOf(pass[g].doc) : p > pass[g].i - 1 => overlaysRef[p] # NoOv

\* C9: no step of onSave, resolving or rejecting, changes the overlay
\* registry, any overlay, pdfBytes, pdfDoc or the render token.
C9_ExportLeavesStateAlone ==
  [][save' # save =>
       UNCHANGED <<overlaysRef, canvas, pdfBytes, pdfDoc, renderTokenRef>>]_vars

\* an export that failed after it had drawn a page with a stroke on it
C9_Witness ==
  /\ save.pc = "failed"
  /\ \E p \in Pages, x \in Cells :
       save.drawn[p] # NoImage /\ save.drawn[p].px[x].c # 0

\* The context settings a segment is drawn with under the tool state.
StyleOfState(cv) ==
  [lineWidth |-> Frac(Max(MIN_LINE_WIDTH * PixelRatio(cv).d,
                          thickness * PixelRatio(cv).n), PixelRatio(cv).d),
   gco |-> IF eraser THEN "destination-out" ELSE "source-over",
   strokeStyle |-> IF eraser THEN [c |-> 0, a |-> 100]
                   ELSE [c |-> color, a |-> Min(opacity, OPACITY_CAP)]]

\* C10: every segment a pointer-move draws uses the colour, opacity,
\* thickness and eraser flag of the tool state at that moment, also when
\* they were changed after the stroke began.
C10_SegmentUsesCurrentTools ==
  [][nSeg' = nSeg + 1 =>
       \A id \in OvIds :
         canvas'[id] # canvas[id] =>
           /\ canvas'[id].lineWidth = StyleOfState(canvas[id]).lineWidth
           /\ canvas'[id].gco = StyleOfState(canvas[id]).gco
           /\ canvas'[id].strokeStyle = StyleOfState(canvas[id]).strokeStyle
           /\ \A x \in Covered(canvas[id].last, canvas'[id].last) :
                canvas'[id].px[x].c = (IF eraser THEN 0 ELSE color)]_vars

\* one stroke whose two segments were drawn in different colours
C10_Witness ==
  /\ nDown = 1 /\ nSeg = 2
  /\ \E id \in OvIds, x, y \in Cells :
       /\ canvas[id].drawing
       /\ canvas[id].px[x].c # 0 /\ canvas[id].px[y].c # 0
       /\ canvas[id].px[x].c # canvas[id].px[y].c

\* C11: every brush (non-eraser) segment is drawn with alpha equal to the
\* smaller of the opacity state and 0.25 (of the default 0.22 and 0.25 when the
\* opacity is absent), so never above 0.25, for every value the slider gives.
C11_BrushAlphaIsCapped ==
  [][(nSeg' = nSeg + 1 /\ ~eraser) =>
       \A id \in OvIds :
         canvas'[id] # canvas[id] =>
           /\ canvas'[id].strokeStyle.a =
                Min(IF opacity = NoOpacity THEN DEFAULT_OPACITY ELSE opacity, OPACITY_CAP)
           /\ canvas'[id].strokeStyle.a <= OPACITY_CAP]_vars

\* two segments drawn at the lowest opacity of the slider
C11_Witness ==
  /\ nSeg = 2 /\ opacity = 10
  /\ \E id \in OvIds : canvas[id].drawing /\ canvas[id].strokeStyle.a = 10

\* C12: on every overlay, a pointer-down marks a stroke active at the down
\* point and draws nothing; content changes only by a pointer-move on an
\* overlay whose stroke is active, which draws one segment from the previous
\* point to the current one, leaves every pixel off the segment as it was and
\* makes the current point the previous one; a pointer-up or pointer-leave
\* ends the stroke and draws nothing; with no stroke active a pointer-move
\* changes nothing.
C12_StrokeLifecycle ==
  [][\A id \in OvIds :
       LET cv == canvas[id]
           cw == canvas'[id]
       IN /\ (nDown' = nDown + 1 /\ cw # cv) =>
               /\ cw.last \in Cells
               /\ cw = [cv EXCEPT !.drawing = TRUE, !.last = cw.last]
          /\ (cw.px # cv.px) =>
               /\ cv.drawing /\ cv.last \in Cells
               /\ nSeg' = nSeg + 1
               /\ cw.drawing /\ cw.last \in Cells
               /\ \A x \in Cells \ Covered(cv.last, cw.last) : cw.px[x] = cv.px[x]
          /\ (nSeg' = nSeg + 1 /\ cw # cv) =>
               /\ cv.drawing /\ cw.drawing
               /\ \A x \in Covered(cv.last, cw.last) :
                    cw.px[x] = strokeTo(cv, pass[id[1]].doc, cv.last, cw.last).px[x]
               /\ \A other \in OvIds \ {id} : canvas'[other] = canvas[other]
          /\ (cv.drawing /\ ~cw.drawing) => (cw.last = 0 /\ cw.px = cv.px)
          /\ (~cv.drawing /\ nDown' = nDown) => (cw.px = cv.px /\ ~cw.drawing)]_vars

\* a stroke of two segments that was begun, drawn and ended
C12_Witness ==
  /\ nDown = 1 /\ nSeg = 2
  /\ \E id \in OvIds, x \in Cells :
       ~canvas[id].drawing /\ canvas[id].last = 0 /\ canvas[id].px[x].c # 0

\* C13: every segment drawn on an overlay starts at the previous pointer
\* position of the stroke the user is making there, which begins at the latest
\* pointer-down, also when that pointer-down arrived while an earlier stroke
\* was still marked active: no segment starts at a point of the earlier stroke.
C13_SegmentStartsInCurrentStroke ==
  [][nSeg' = nSeg + 1 =>
       \A id \in OvIds :
         canvas'[id] # canvas[id] =>
           /\ penAt[id] \in Cells
           /\ canvas[id].last = penAt[id]
           /\ \A x \in Cells \ Covered(penAt[id], penAt'[id]) :
                canvas'[id].px[x] = canvas[id].px[x]]_vars

\* two pointer-downs on one overlay with no pointer-up or pointer-leave
\* between them, and two segments drawn
C13_Witness ==
  /\ nDown = 2 /\ nSeg = 2
  /\ \E id \in OvIds :
       /\ canvas[id].drawing /\ canvas[id].last = NCells
       /\ canvas[id].px[1].c # 0
       /\ \A other \in OvIds \ {id} : ~canvas[other].drawing

\* No onOpen call is suspended or has its timer pending, and the effect of the
\* last setPdfDoc has run.
OpensSettled ==
  /\ ~effectDue
  /\ \A k \in OpenIds : opens[k].pc \in {"none", "done", "failed"}

\* C14: once opens and rendering have settled, the pass of the latest
\* renderAll call (the one holding the current token) was given the base scale
\* multiplied by the zoom held in state.
C14_RenderAtBaseScaleTimesZoom ==
  (OpensSettled /\ RenderSettled /\ renderTokenRef # 0) =>
    pass[renderTokenRef].scale = baseScale * zoom

\* C15: a segment drawn while the eraser flag is on leaves every pixel it
\* covers fully transparent, whatever had been painted there and whatever
\* colour and opacity are selected, and changes no other pixel; a segment
\* drawn while the flag is off gives every pixel it covers the selected colour
\* and no less alpha than it had, and changes no other pixel.
C15_EraserClearsBrushAdds ==
  [][nSeg' = nSeg + 1 =>
       \A id \in OvIds :
         canvas'[id] # canvas[id] =>
           \A x \in Cells :
             LET old == canvas[id].px[x]
                 new == canvas'[id].px[x]
             IN IF x \notin Covered(penAt[id], penAt'[id]) THEN new = old
                ELSE IF eraser THEN new = Clear
                ELSE /\ new.c = color
                     /\ new.a >= old.a /\ new.a > 0]_vars

\* two brush segments were laid over both ends of the overlay and an eraser
\* segment then cleared one end
C15_Witness ==
  /\ nSeg >= 3 /\ eraser
  /\ \E id \in OvIds, x, y \in Cells :
       /\ canvas[id].gco = "destination-out"
       /\ canvas[id].px[x] = Clear
       /\ canvas[id].px[y].a > OPACITY_CAP

\* C16: the bitmap onSave renders for a page has the pixel width and the
\* pixel height of the overlay it read from the registry for that page.
C16_ExportBitmapMatchesOverlay ==
  save.pc \in {"render", "embed"} =>
    /\ save.tmp.width = canvas[save.ol].width
    /\ save.tmp.height = canvas[save.ol].height

\* the cursor an overlay shows for a value of the eraser flag
CursorOf(flag) == IF flag THEN "not-allowed" ELSE "crosshair"

\* C17: every overlay in the registry shows the cursor of the eraser flag,
\* those registered before the flag last changed and those registered after
\* it; a change of the flag changes no registry entry, not the render token,
\* and nothing of any overlay but its cursor.
C17_EraserToggleOnlySetsCursor ==
  /\ [](\A p \in Pages :
          overlaysRef[p] # NoOv => canvas[overlaysRef[p]].cursor = CursorOf(eraser))
  /\ [][eraser' # eraser =>
          /\ UNCHANGED <<overlaysRef, renderTokenRef>>
          /\ \A id \in OvIds :
               canvas'[id] = [canvas[id] EXCEPT !.cursor = canvas'[id].cursor]]_vars

\* the eraser was switched on while a pass was registering its pages: one
\* overlay of the finished pass got its cursor from the toggle or at
\* registration, and both show the eraser's cursor
C17_Witness ==
  /\ eraser /\ nTool = 1
  /\ renderTokenRef = 3 /\ pass[3].pc = "done"
  /\ \A p \in PagesOf(pdfDoc) :
       overlaysRef[p] = <<3, p>> /\ canvas[<<3, p>>].cursor = "not-allowed"

\* C18 as stated: every segment is drawn with line width max(2, thickness * r),
\* r being the overlay's pixel width over its displayed width, and its width
\* in CSS pixels (the line width over r) equals the selected thickness.
C18_CssWidthIsThickness ==
  [][nSeg' = nSeg + 1 =>
       \A id \in OvIds :
         canvas'[id] # canvas[id] =>
           LET n == canvas[id].width * 800
               d == canvas[id].cssWidth
               L == canvas'[id].lineWidth
           IN /\ L = Frac(Max(MIN_LINE_WIDTH * d, thickness * n), d)
              /\ L.n = thickness * n]_vars

\* C18 as amended: every segment is drawn with line width max(2, thickness * r);
\* its width in CSS pixels equals the selected thickness when thickness * r is
\* at least 2, and otherwise the line is 2 canvas pixels wide, which is more
\* CSS pixels than the selected thickness.
C18_CssWidthIsThicknessAboveFloor ==
  [][nSeg' = nSeg + 1 =>
       \A id \in OvIds :
         canvas'[id] # canvas[id] =>
           LET n == canvas[id].width * 800
               d == canvas[id].cssWidth
               L == canvas'[id].lineWidth
           IN /\ L.d = d
              /\ IF thickness * n >= MIN_LINE_WIDTH * d
                 THEN L.n = thickness * n
                 ELSE L.n = MIN_LINE_WIDTH * d /\ L.n > thickness * n]_vars

\* a segment drawn at the floor of 2 canvas pixels, on an overlay rendered at
\* a pixel ratio under which the selected thickness is less than that
C18_Witness ==
  /\ nSeg >= 1
  /\ \E id \in OvIds :
       /\ canvas[id].drawing
       /\ canvas[id].lineWidth = Frac(MIN_LINE_WIDTH * canvas[id].cssWidth, canvas[id].cssWidth)
       /\ thickness * canvas[id].width * 800 < MIN_LINE_WIDTH * canvas[id].cssWidth

\* C19: once the pass of the latest renderAll call has run to its end, no
\* renderAll call being pending and no other pass suspended, the registry
\* holds an overlay for each page index of that pass's document and for no
\* other index; and that pass registers its pages in increasing index order.
C19_UnsupersededPassFillsRegistry ==
  /\ []((OpensSettled /\ RenderSettled /\ renderTokenRef # 0) =>
          \A p \in Pages :
            overlaysRef[p] # NoOv <=> p \in PagesOf(pass[renderTokenRef].doc))
  /\ [][\A p \in Pages :
          (overlaysRef'[p] # overlaysRef[p] /\ overlaysRef'[p][1] = renderTokenRef)
          => \A q \in Pages : q < p => overlaysRef[q] # NoOv]_vars

\* C20: whenever pdfBytes and pdfDoc are both set, the bytes kept for the PDF
\* writer and the document handle kept for rendering come from the same file.
C20_BytesAndDocOfSameFile ==
  (pdfBytes # "" /\ pdfDoc # "") => pdfBytes = pdfDoc

\* C21: an onSave call that started on a settled document, every page of
\* which had a registered overlay, and ran to its end has composited an
\* overlay for every page, and all those overlays were created by the same
\* renderAll call for the document being exported, whatever renderAll calls
\* were made while the export was suspended.
C21_ExportUsesOneGeneration ==
  save.pc = "saved" =>
    \E g \in Gens :
      /\ pass[g].doc = save.doc
      /\ \A p \in PagesOf(save.doc) :
           save.drawn[p] # NoImage /\ save.drawn[p].src = <<g, p>>

\* C22: a pointer-down, pointer-move, pointer-up or pointer-leave on the
\* overlay shown over page p changes nothing of any other overlay, neither
\* content nor stroke state, and changes neither the overlay registry, nor
\* the render token, nor pdfBytes, nor pdfDoc.
C22_StrokesAreLocal ==
  [][\A p \in Pages :
       (\/ \E x \in Cells : PointerDown(p, x) \/ PointerMove(p, x)
        \/ PointerUp(p)
        \/ PointerLeave(p))
       => /\ \A id \in OvIds \ {Displayed(p)} : canvas'[id] = canvas[id]
          /\ UNCHANGED <<overlaysRef, renderTokenRef, pdfBytes, pdfDoc>>]_vars

\* strokes were drawn on both pages at once and the one on the first page was
\* ended: the second page's stroke is still active and both keep their ink
C22_Witness ==
  /\ nDown = 2 /\ nSeg >= 2
  /\ ~canvas[Displayed(0)].drawing /\ canvas[Displayed(0)].last = 0
  /\ canvas[Displayed(1)].drawing /\ canvas[Displayed(1)].last # 0
  /\ \E x, y \in Cells :
       canvas[Displayed(0)].px[x].c # 0 /\ canvas[Displayed(1)].px[y].c # 0

\* C23: a step of a pass that has been superseded starts no getPage; it starts
\* a page.render only for the page whose getPage it was awaiting; it creates
\* and registers no overlay but that of the page it was rendering, and having
\* registered it the pass has ended; and a pass that has ended takes no
\* further step. A superseded pass so registers at most one more overlay and
\* touches no later page.
C23_SupersededPassStopsWithinOnePage ==
  [][\A g \in Gens :
       /\ (g # renderTokenRef /\ pass[g].pc \in {"getPage", "render"}
              /\ pass'[g] # pass[g])
          => /\ pass'[g].pc # "getPage"
             /\ pass'[g].pc = "render" => pass'[g].i = pass[g].i
             /\ \A p \in Pages :
                  overlaysRef'[p] # overlaysRef[p] =>
                    /\ p = pass[g].i - 1
                    /\ overlaysRef'[p] = <<g, p>>
                    /\ pass'[g].pc \in {"cancelled", "done"}
             /\ \A id \in OvIds :
                  canvas'[id] # canvas[id] => id = <<g, pass[g].i - 1>>
       /\ pass[g].pc \in {"cancelled", "done", "failed"} => pass'[g] = pass[g]]_vars

\* the third pass was superseded by the fourth before it had registered its
\* first page; it registered that page afterwards and stopped there, its
\* second page never begun
C23_Witness ==
  /\ renderTokenRef = 4
  /\ pass[3].pc = "cancelled" /\ pass[3].i = 2
  /\ pass[4].prev[0] # <<3, 0>>
  /\ canvas[<<3, 0>>].made /\ ~canvas[<<3, 1>>].made
====
